---- MODULE Spec2Model ----
\* Nutri Guide API (src/main.py, src/schemas.py): the calorie planner
\* (compute_plan), the profile handlers (upsert_profile, get_profile) on the
\* userprofile collection, and the daily-log aggregator: the dailylog
\* collection, its three handlers (get_log, add_entry, delete_entry) and
\* recalc_totals.  Python's float arithmetic is modelled as IEEE-754 binary64
\* (53-bit significand, round-half-even).
EXTENDS Integers, Sequences, FiniteSets, TLC

\* ---------------------------------------------------------------------------
\* Python float (IEEE-754 binary64).  A float v is kept as the exact integer
\* v * 2^60, written as three limbs <<l, m, h>> with
\*     v * 2^60 = h * 2^60 + m * 2^30 + l,      l, m < 2^30, h < 2^15.
\* Every binary64 value in {0} \cup [2^-7, 2^15) is such an integer; the
\* request inputs below and every sum and product formed from them stay
\* inside that window.
\* ---------------------------------------------------------------------------
B15 == 32768
B30 == 1073741824
SigBits == 53

RECURSIVE BitLen(_)
BitLen(x) ==
    IF x = 0 THEN 0
    ELSE IF x >= 32768 THEN 15 + BitLen(x \div 32768)
    ELSE IF x >= 256 THEN 8 + BitLen(x \div 256)
    ELSE IF x >= 16 THEN 4 + BitLen(x \div 16)
    ELSE IF x >= 4 THEN 2 + BitLen(x \div 4)
    ELSE IF x >= 2 THEN 2 ELSE 1

\* The rounding every binary64 operation applies to its exact result: to 53
\* significant bits, ties to even.  The exact result is
\*     h * 2^60 + m * 2^30 + l + g * 2^-30 (+ something below, when st),
\* g < 2^30 being the guard limb and st the sticky flag.  s is the number of
\* bits of l that lie below the 53-bit significand.
Round53(g, l, m, h, st) ==
    LET s    == IF h > 0 THEN 60 + BitLen(h) - SigBits
                ELSE IF m > 0 THEN 30 + BitLen(m) - SigBits
                ELSE 0
        q    == 2 ^ s
        r    == l % q
        half == q \div 2
        odd  == (l \div q) % 2 = 1
        up   == IF s > 0
                THEN r > half \/ (r = half /\ (g # 0 \/ st \/ odd))
                ELSE g > (B30 \div 2) \/ (g = (B30 \div 2) /\ (st \/ odd))
        l1   == IF s > 0
                THEN (l - r) + (IF up THEN q ELSE 0)
                ELSE l + (IF up THEN 1 ELSE 0)
        m1   == m + (l1 \div B30)
    IN  <<l1 % B30, m1 % B30, h + (m1 \div B30)>>

\* float + float
fadd(x, y) ==
    LET l == x[1] + y[1]
        m == x[2] + y[2] + (l \div B30)
        h == x[3] + y[3] + (m \div B30)
    IN  Round53(0, l % B30, m % B30, h, FALSE)

\* the five 15-bit limbs of a float
Limbs15(x) == <<x[1] % B15, x[1] \div B15, x[2] % B15, x[2] \div B15, x[3]>>

\* a * k for a 15-bit k: six 15-bit limbs
MulRow(a, k) ==
    LET s1 == a[1] * k
        s2 == a[2] * k + (s1 \div B15)
        s3 == a[3] * k + (s2 \div B15)
        s4 == a[4] * k + (s3 \div B15)
        s5 == a[5] * k + (s4 \div B15)
    IN  <<s1 % B15, s2 % B15, s3 % B15, s4 % B15, s5 % B15, s5 \div B15>>

\* a * k, skipping the multiplication for a zero limb k
Row(a, k) == IF k = 0 THEN <<0, 0, 0, 0, 0, 0>> ELSE MulRow(a, k)

\* the schoolbook rows of a * b, row j being a * b[j] (to be shifted j-1 limbs)
Rows(a, b) == <<Row(a, b[1]), Row(a, b[2]), Row(a, b[3]), Row(a, b[4]), Row(a, b[5])>>

\* the ten column sums of the shifted rows
Cols(r) ==
    <<r[1][1],
      r[1][2] + r[2][1],
      r[1][3] + r[2][2] + r[3][1],
      r[1][4] + r[2][3] + r[3][2] + r[4][1],
      r[1][5] + r[2][4] + r[3][3] + r[4][2] + r[5][1],
      r[1][6] + r[2][5] + r[3][4] + r[4][3] + r[5][2],
      r[2][6] + r[3][5] + r[4][4] + r[5][3],
      r[3][6] + r[4][5] + r[5][4],
      r[4][6] + r[5][5],
      r[5][6]>>

\* carries over the column sums give the exact product, ten 15-bit limbs of
\* unit 2^-120; it is rounded and brought back to unit 2^-60
RoundProduct(col) ==
    LET c1   == col[1]
        c2   == col[2] + (c1 \div B15)
        c3   == col[3] + (c2 \div B15)
        c4   == col[4] + (c3 \div B15)
        c5   == col[5] + (c4 \div B15)
        c6   == col[6] + (c5 \div B15)
        c7   == col[7] + (c6 \div B15)
        c8   == col[8] + (c7 \div B15)
        c9   == col[9] + (c8 \div B15)
        c10  == col[10] + (c9 \div B15)
    IN  Round53((c3 % B15) + B15 * (c4 % B15),
                (c5 % B15) + B15 * (c6 % B15),
                (c7 % B15) + B15 * (c8 % B15),
                (c9 % B15) + B15 * c10,
                (c1 % B15) # 0 \/ (c2 % B15) # 0)

\* float * float
fmul(x, y) == RoundProduct(Cols(Rows(Limbs15(x), Limbs15(y))))

\* the float nearest to k / 10^d (k < 2^15), as the request parser yields it
\* for a decimal literal: long division over 15-bit limbs down to unit 2^-90,
\* the remainder being the sticky flag
Dec(k, d) ==
    LET D  == 10 ^ d
        n8 == (k % D) * B15
        n7 == (n8 % D) * B15
        n6 == (n7 % D) * B15
        n5 == (n6 % D) * B15
        n4 == (n5 % D) * B15
        n3 == (n4 % D) * B15
    IN  Round53((n3 \div D) + B15 * (n4 \div D),
                (n5 \div D) + B15 * (n6 \div D),
                (n7 \div D) + B15 * (n8 \div D),
                k \div D,
                (n3 % D) # 0)

\* round(v, 1): the multiple of 0.1 nearest to the exact value of v, ties to
\* even.  The result is the float nearest to t/10; the model keeps t.
round1(v) ==
    LET t    == MulRow(Limbs15(v), 10)
        q    == t[5] + B15 * t[6]
        half == B15 \div 2
        low  == t[1] # 0 \/ t[2] # 0 \/ t[3] # 0
    IN  IF t[4] > half \/ (t[4] = half /\ low) THEN q + 1
        ELSE IF t[4] < half THEN q
        ELSE IF q % 2 = 0 THEN q ELSE q + 1

\* 0.0
F0 == <<0, 0, 0>>

\* ---------------------------------------------------------------------------
\* Signed floats, for compute_plan: a sign and a magnitude <<l, m, h>>
\* ---------------------------------------------------------------------------
\* magnitude a < magnitude b
AbsLess(a, b) ==
    \/ a[3] < b[3]
    \/ a[3] = b[3] /\ a[2] < b[2]
    \/ a[3] = b[3] /\ a[2] = b[2] /\ a[1] < b[1]

\* float - float on magnitudes, for a >= b
fsub(a, b) ==
    LET l  == a[1] - b[1]
        bl == IF l < 0 THEN 1 ELSE 0
        m  == a[2] - b[2] - bl
        bm == IF m < 0 THEN 1 ELSE 0
    IN  Round53(0, l + bl * B30, m + bm * B30, a[3] - b[3] - bm, FALSE)

\* float / int on a magnitude, for 0 < k < 2^15: long division over 15-bit
\* limbs, two limbs beyond unit 2^-60, the remainder being the sticky flag
fdiv(a, k) ==
    LET d  == Limbs15(a)
        c5 == d[5]
        c4 == (c5 % k) * B15 + d[4]
        c3 == (c4 % k) * B15 + d[3]
        c2 == (c3 % k) * B15 + d[2]
        c1 == (c2 % k) * B15 + d[1]
        g2 == (c1 % k) * B15
        g1 == (g2 % k) * B15
    IN  Round53((g1 \div k) + B15 * (g2 \div k),
                (c1 \div k) + B15 * (c2 \div k),
                (c3 \div k) + B15 * (c4 \div k),
                c5 \div k,
                (g1 % k) # 0)

\* float(n) for an int n, |n| < 2^15
Float(n) == [neg |-> n < 0, abs |-> <<0, 0, IF n < 0 THEN 0 - n ELSE n>>]

\* the float of the decimal literal k / 10^d
Lit(k, d) == [neg |-> FALSE, abs |-> Dec(k, d)]

\* -x
Neg(x) == [neg |-> ~x.neg, abs |-> x.abs]

\* x + y
Add(x, y) ==
    IF x.neg = y.neg THEN [neg |-> x.neg, abs |-> fadd(x.abs, y.abs)]
    ELSE IF x.abs = y.abs THEN [neg |-> FALSE, abs |-> F0]
    ELSE IF AbsLess(x.abs, y.abs) THEN [neg |-> y.neg, abs |-> fsub(y.abs, x.abs)]
    ELSE [neg |-> x.neg, abs |-> fsub(x.abs, y.abs)]

\* x - y
Sub(x, y) == Add(x, Neg(y))

\* x * y
Mul(x, y) == [neg |-> x.neg # y.neg, abs |-> fmul(x.abs, y.abs)]

\* x / k for an int k, 0 < k < 2^15
Div(x, k) == [neg |-> x.neg, abs |-> fdiv(x.abs, k)]

\* round(x, 0): the integer nearest to the exact value of x, ties to even.
\* The result is a float of integral value; the model keeps the integer
\* (-0.0 and 0.0 both being 0).
round0(x) ==
    LET a    == x.abs
        half == B30 \div 2
        n    == IF a[2] > half \/ (a[2] = half /\ a[1] > 0) THEN a[3] + 1
                ELSE IF a[2] < half THEN a[3]
                ELSE IF a[3] % 2 = 0 THEN a[3] ELSE a[3] + 1
    IN  IF x.neg THEN 0 - n ELSE n

\* ---------------------------------------------------------------------------
\* The calorie planner
\* ---------------------------------------------------------------------------
\* UserProfile (src/schemas.py) after request validation; name is "None"
\* when absent
UserProfile(email, name, age, gender, height_cm, weight_kg, activity_level, goal) ==
    [email |-> email, name |-> name, age |-> age, gender |-> gender,
     height_cm |-> height_cm, weight_kg |-> weight_kg,
     activity_level |-> activity_level, goal |-> goal]

CaloriePlan(maintenance_calories, goal_calories, protein_g, carbs_g, fat_g) ==
    [maintenance_calories |-> maintenance_calories, goal_calories |-> goal_calories,
     protein_g |-> protein_g, carbs_g |-> carbs_g, fat_g |-> fat_g]

activity_multiplier(level) ==
    CASE level = "sedentary"   -> Lit(12, 1)
      [] level = "light"       -> Lit(1375, 3)
      [] level = "moderate"    -> Lit(155, 2)
      [] level = "active"      -> Lit(1725, 3)
      [] level = "very_active" -> Lit(19, 1)
      [] OTHER                 -> Lit(12, 1)

\* an assignment x = v followed by the code F that uses x: v is evaluated
\* once and F is applied to its value
Bind(v, F(_)) == CHOOSE r \in {F(x) : x \in {v}} : TRUE

\* faulty variant of Bmr: 161 is subtracted whatever the gender
Bmr_AlwaysFemale(profile) ==
    Bind(Mul(Float(10), profile.weight_kg), LAMBDA kg :
    Bind(Mul(Lit(625, 2), profile.height_cm), LAMBDA cm :
    Bind(Add(kg, cm), LAMBDA sum :
    Bind(Sub(sum, Float(5 * profile.age)), LAMBDA base :
        Sub(base, Float(161))))))

\* bmr, Mifflin-St Jeor
Bmr(profile) ==
    Bind(Mul(Float(10), profile.weight_kg), LAMBDA kg :
    Bind(Mul(Lit(625, 2), profile.height_cm), LAMBDA cm :
    Bind(Add(kg, cm), LAMBDA sum :
    Bind(Sub(sum, Float(5 * profile.age)), LAMBDA base :
        IF profile.gender = "male"
        THEN Add(base, Float(5))
        ELSE Sub(base, Float(161))))))

\* 1 + adj
GoalFactor(goal) ==
    IF goal = "lose" THEN Add(Float(1), Neg(Lit(2, 1)))
    ELSE IF goal = "gain" THEN Add(Float(1), Lit(15, 2))
    ELSE Float(1)

\* faulty variant of compute_plan: a profile without a name is planned as
\* sedentary
compute_plan_Named(profile) ==
    Bind(Bmr(profile), LAMBDA bmr :
    Bind(Mul(bmr, activity_multiplier(IF profile.name = "None" THEN "sedentary" ELSE profile.activity_level)), LAMBDA tdee :
    Bind(Mul(tdee, GoalFactor(profile.goal)), LAMBDA goal_cals :
    Bind(Mul(Lit(3, 1), goal_cals), LAMBDA protein_cal :
    Bind(Mul(Lit(4, 1), goal_cals), LAMBDA carbs_cal :
    Bind(Mul(Lit(3, 1), goal_cals), LAMBDA fat_cal :
        CaloriePlan(round0(tdee), round0(goal_cals), round0(Div(protein_cal, 4)),
                    round0(Div(carbs_cal, 4)), round0(Div(fat_cal, 9)))))))))

\* faulty variant of compute_plan: fat is converted at 4 kcal/g
compute_plan_Fat4(profile) ==
    Bind(Bmr(profile), LAMBDA bmr :
    Bind(Mul(bmr, activity_multiplier(profile.activity_level)), LAMBDA tdee :
    Bind(Mul(tdee, GoalFactor(profile.goal)), LAMBDA goal_cals :
    Bind(Mul(Lit(3, 1), goal_cals), LAMBDA protein_cal :
    Bind(Mul(Lit(4, 1), goal_cals), LAMBDA carbs_cal :
    Bind(Mul(Lit(3, 1), goal_cals), LAMBDA fat_cal :
        CaloriePlan(round0(tdee), round0(goal_cals), round0(Div(protein_cal, 4)),
                    round0(Div(carbs_cal, 4)), round0(Div(fat_cal, 4)))))))))

\* faulty variant of compute_plan: the macro grams are derived from the
\* rounded goal calories
compute_plan_FromRounded(profile) ==
    Bind(Bmr(profile), LAMBDA bmr :
    Bind(Mul(bmr, activity_multiplier(profile.activity_level)), LAMBDA tdee :
    Bind(Float(round0(Mul(tdee, GoalFactor(profile.goal)))), LAMBDA goal_cals :
    Bind(Mul(Lit(3, 1), goal_cals), LAMBDA protein_cal :
    Bind(Mul(Lit(4, 1), goal_cals), LAMBDA carbs_cal :
    Bind(Mul(Lit(3, 1), goal_cals), LAMBDA fat_cal :
        CaloriePlan(round0(tdee), round0(goal_cals), round0(Div(protein_cal, 4)),
                    round0(Div(carbs_cal, 4)), round0(Div(fat_cal, 9)))))))))

compute_plan(profile) ==
    Bind(Bmr(profile), LAMBDA bmr :
    Bind(Mul(bmr, activity_multiplier(profile.activity_level)), LAMBDA tdee :
    Bind(Mul(tdee, GoalFactor(profile.goal)), LAMBDA goal_cals :
    Bind(Mul(Lit(3, 1), goal_cals), LAMBDA protein_cal :
    Bind(Mul(Lit(4, 1), goal_cals), LAMBDA carbs_cal :
    Bind(Mul(Lit(3, 1), goal_cals), LAMBDA fat_cal :
        CaloriePlan(round0(tdee), round0(goal_cals), round0(Div(protein_cal, 4)),
                    round0(Div(carbs_cal, 4)), round0(Div(fat_cal, 9)))))))))

\* ---------------------------------------------------------------------------
\* Bounds and request inputs
\* ---------------------------------------------------------------------------
MaxEntries == 3
MaxRequests == 3

Emails == {"ann@x.org", "bob@x.org"}
Dates == {"2024-05-01"}
Indexes == (0 - 1)..MaxEntries

\* MealEntry (src/schemas.py): the float fields after request validation.
\* food_id and meal_type take no part in any handler and are left out.
MealEntry(name, cal, pro, carb, fat, qty) ==
    [name |-> name, calories |-> cal, protein |-> pro, carbs |-> carb,
     fat |-> fat, quantity |-> qty]

Apple == MealEntry("apple", Dec(5200, 2), Dec(30, 2), Dec(1380, 2), Dec(20, 2), Dec(15, 1))
Banana == MealEntry("banana", Dec(8870, 2), Dec(110, 2), Dec(2285, 2), Dec(30, 2), Dec(5, 1))

Entries == {Apple, Banana}

\* The arguments compute_plan is applied to: every combination of the field
\* values below is a valid UserProfile (age 10..120, height_cm > 0,
\* weight_kg > 0).  Heights and weights are given in tenths, the float being
\* the one the request parser yields for that decimal.
Genders == {"male", "female"}
Ages == {10, 30, 65, 120}
Heights10 == {10, 1505, 1800, 2720}
Weights10 == {10, 453, 800, 3000}
Levels == {"sedentary", "light", "moderate", "active", "very_active"}
Goals == {"lose", "maintain", "gain"}

PlanInputs ==
    {UserProfile("ann@x.org", "None", age, gender, Lit(h10, 1), Lit(w10, 1), level, goal) :
        age \in Ages, gender \in Genders, h10 \in Heights10, w10 \in Weights10,
        level \in Levels, goal \in Goals}

NoProfile == UserProfile("", "None", 0, "", Float(0), Float(0), "", "")

\* The profiles submitted to POST /api/profile.  Ann3 is Ann1 without a
\* name; Bob1 agrees with Ann1 in all fields that compute_plan reads.
Ann1 == UserProfile("ann@x.org", "Ann", 30, "male", Lit(1800, 1), Lit(800, 1), "moderate", "maintain")
Ann2 == UserProfile("ann@x.org", "None", 65, "female", Lit(1505, 1), Lit(453, 1), "light", "lose")
Ann3 == UserProfile("ann@x.org", "None", 30, "male", Lit(1800, 1), Lit(800, 1), "moderate", "maintain")
Bob1 == UserProfile("bob@x.org", "None", 30, "male", Lit(1800, 1), Lit(800, 1), "moderate", "maintain")
Bob2 == UserProfile("bob@x.org", "Bob", 65, "female", Lit(1505, 1), Lit(453, 1), "light", "gain")
Ann4 == UserProfile("ann@x.org", "Ann", 10, "male", Lit(1505, 1), Lit(800, 1), "active", "maintain")
Bob3 == UserProfile("bob@x.org", "Bob", 120, "female", Lit(10, 1), Lit(10, 1), "sedentary", "maintain")

Profiles == {Ann1, Ann2, Ann3, Ann4, Bob1, Bob2, Bob3}

\* the profiles submitted where requests interleave
ConcProfiles == {Ann1, Ann3}
NoPlan == CaloriePlan(0, 0, 0, 0, 0)

\* ---------------------------------------------------------------------------
\* Documents and the store calls on db["dailylog"]
\* ---------------------------------------------------------------------------
ZeroTotals == [calories |-> 0, protein |-> 0, carbs |-> 0, fat |-> 0]

\* the falsy result of find_one
NoDoc == [id |-> 0, email |-> "", date |-> "", entries |-> <<>>, totals |-> ZeroTotals]

\* find_one({"email": email, "date": date}): the first matching document
\* in insertion order, or NoDoc
RECURSIVE FindFrom(_, _, _, _)
FindFrom(coll, email, date, i) ==
    IF i > Len(coll) THEN NoDoc
    ELSE IF coll[i].email = email /\ coll[i].date = date THEN coll[i]
    ELSE FindFrom(coll, email, date, i + 1)

FindOne(coll, email, date) == FindFrom(coll, email, date, 1)

\* insert_one(doc): the document is stored under a fresh _id
InsertOne(coll, email, date, entries, totals) ==
    Append(coll, [id |-> Len(coll) + 1, email |-> email, date |-> date,
                  entries |-> entries, totals |-> totals])

\* faulty variant of UpdateOne: an empty filter, the $set reaches every
\* document
UpdateOne_AllDocs(coll, id, entries, totals) ==
    [i \in 1..Len(coll) |->
        [coll[i] EXCEPT !.entries = entries, !.totals = totals]]

\* faulty variant of UpdateOne: the $set leaves the totals out
UpdateOne_EntriesOnly(coll, id, entries, totals) ==
    [i \in 1..Len(coll) |->
        IF coll[i].id = id
        THEN [coll[i] EXCEPT !.entries = entries]
        ELSE coll[i]]

\* update_one({"_id": id}, {"$set": {"entries": entries, "totals": totals}})
UpdateOne(coll, id, entries, totals) ==
    [i \in 1..Len(coll) |->
        IF coll[i].id = id
        THEN [coll[i] EXCEPT !.entries = entries, !.totals = totals]
        ELSE coll[i]]

\* ---------------------------------------------------------------------------
\* recalc_totals: the running float sums, then round(v, 1) of each
\* ---------------------------------------------------------------------------
RECURSIVE SumFrom(_, _, _)
SumFrom(entries, i, totals) ==
    IF i > Len(entries) THEN totals
    ELSE LET e   == entries[i]
             qty == e.quantity
         IN  SumFrom(entries, i + 1,
                 [calories |-> fadd(totals.calories, fmul(e.calories, qty)),
                  protein  |-> fadd(totals.protein, fmul(e.protein, qty)),
                  carbs    |-> fadd(totals.carbs, fmul(e.carbs, qty)),
                  fat      |-> fadd(totals.fat, fmul(e.fat, qty))])

recalc_totals(entries) ==
    LET totals == SumFrom(entries, 1,
                      [calories |-> F0, protein |-> F0, carbs |-> F0, fat |-> F0])
    IN  [k \in DOMAIN totals |-> round1(totals[k])]

\* faulty variant of Pop: entries.pop(), the last entry whatever the index
Pop_Last(entries, index) == SubSeq(entries, 1, Len(entries) - 1)

\* entries.pop(index) for 0 <= index < len(entries)
Pop(entries, index) ==
    [j \in 1..(Len(entries) - 1) |->
        IF j <= index THEN entries[j] ELSE entries[j + 1]]

\* ---------------------------------------------------------------------------
\* The handler bodies as functions of the collection and of the document
\* that find_one returned
\* ---------------------------------------------------------------------------

\* faulty variant of add_write: the log is read again at the time of the
\* write, the document find_one returned being left aside
add_write_Reread(coll, log, email, date, entry) ==
    LET cur == FindOne(coll, email, date)
    IN  IF log # NoDoc
        THEN LET entries == Append(cur.entries, entry)
                 totals  == recalc_totals(entries)
             IN  UpdateOne(coll, log.id, entries, totals)
        ELSE LET totals == recalc_totals(<<entry>>)
             IN  InsertOne(coll, email, date, <<entry>>, totals)

\* faulty variant of add_write: the new entry is put first
add_write_Prepend(coll, log, email, date, entry) ==
    IF log # NoDoc
    THEN LET entries == <<entry>> \o log.entries
             totals  == recalc_totals(entries)
         IN  UpdateOne(coll, log.id, entries, totals)
    ELSE LET totals == recalc_totals(<<entry>>)
         IN  InsertOne(coll, email, date, <<entry>>, totals)

\* faulty variant of add_write: an existing log is updated and a new document
\* is inserted all the same
add_write_AlwaysInsert(coll, log, email, date, entry) ==
    LET upd == IF log # NoDoc
               THEN UpdateOne(coll, log.id, Append(log.entries, entry),
                              recalc_totals(Append(log.entries, entry)))
               ELSE coll
    IN  InsertOne(upd, email, date, <<entry>>, recalc_totals(<<entry>>))

\* add_entry after find_one: append and update in place, or insert a new log
add_write(coll, log, email, date, entry) ==
    IF log # NoDoc
    THEN LET entries == Append(log.entries, entry)
             totals  == recalc_totals(entries)
         IN  UpdateOne(coll, log.id, entries, totals)
    ELSE LET totals == recalc_totals(<<entry>>)
         IN  InsertOne(coll, email, date, <<entry>>, totals)

add_status(log) == IF log # NoDoc THEN "updated" ELSE "created"

\* faulty variant of delete_check: index = len(entries) passes the bounds check
delete_check_OffByOne(log, index) ==
    IF log = NoDoc THEN "404"
    ELSE IF index < 0 \/ index > Len(log.entries) THEN "400"
    ELSE "deleted"

\* faulty variant of delete_check: no check for a missing log
delete_check_NoNotFound(log, index) ==
    IF index < 0 \/ index >= Len(log.entries) THEN "400"
    ELSE "deleted"

\* delete_entry after find_one: 404, 400, or go on to delete
delete_check(log, index) ==
    IF log = NoDoc THEN "404"
    ELSE IF index < 0 \/ index >= Len(log.entries) THEN "400"
    ELSE "deleted"

\* faulty variant of delete_write: the totals written are those of the
\* entries before the pop
delete_write_OldTotals(coll, log, index) ==
    LET entries == Pop(log.entries, index)
        totals  == recalc_totals(log.entries)
    IN  UpdateOne(coll, log.id, entries, totals)

\* faulty variant of delete_write: a log left without entries is removed
delete_write_DropsEmpty(coll, log, index) ==
    LET entries == Pop(log.entries, index)
        totals  == recalc_totals(entries)
        keep(d) == d.id # log.id
    IN  IF entries = <<>>
        THEN SelectSeq(coll, keep)
        ELSE UpdateOne(coll, log.id, entries, totals)

\* delete_entry from the pop on: the remaining entries and their totals are
\* written back
delete_write(coll, log, index) ==
    LET entries == Pop(log.entries, index)
        totals  == recalc_totals(entries)
    IN  UpdateOne(coll, log.id, entries, totals)

\* ---------------------------------------------------------------------------
\* Documents and the store calls on db["userprofile"]
\* ---------------------------------------------------------------------------
\* what a response of the profile handlers, or a call of compute_plan, carries
PlanResponse(op, status, profile, plan) ==
    [op |-> op, status |-> status, profile |-> profile, plan |-> plan]

\* the falsy result of find_one
NoProfileDoc == [id |-> 0, profile |-> NoProfile]

\* find_one({"email": email}): the first matching document in insertion
\* order, or NoProfileDoc
RECURSIVE FindProfileFrom(_, _, _)
FindProfileFrom(coll, email, i) ==
    IF i > Len(coll) THEN NoProfileDoc
    ELSE IF coll[i].profile.email = email THEN coll[i]
    ELSE FindProfileFrom(coll, email, i + 1)

FindProfile(coll, email) == FindProfileFrom(coll, email, 1)

\* create_document("userprofile", profile): the fields of the profile are
\* inserted as a new document, under a fresh _id
create_document(coll, profile) ==
    Append(coll, [id |-> Len(coll) + 1, profile |-> profile])

\* faulty variant of UpdateProfile: fields that are None are left out of the
\* $set, so a stored name survives
UpdateProfile_KeepName(coll, email, profile) ==
    LET first == FindProfile(coll, email)
    IN  [i \in 1..Len(coll) |->
            IF coll[i].id = first.id
            THEN [coll[i] EXCEPT !.profile =
                    IF profile.name = "None"
                    THEN [profile EXCEPT !.name = coll[i].profile.name]
                    ELSE profile]
            ELSE coll[i]]

\* update_one({"email": email}, {"$set": profile.model_dump()}): every field
\* of the first matching document is set, name included when it is None
UpdateProfile(coll, email, profile) ==
    LET first == FindProfile(coll, email)
    IN  [i \in 1..Len(coll) |->
            IF coll[i].id = first.id
            THEN [coll[i] EXCEPT !.profile = profile]
            ELSE coll[i]]

\* upsert_profile after find_one: update the stored profile or insert one
upsert_write(coll, existing, profile) ==
    IF existing # NoProfileDoc
    THEN UpdateProfile(coll, profile.email, profile)
    ELSE create_document(coll, profile)

\* what get_profile returns for the document find_one returned
ProfileView(doc) ==
    IF doc = NoProfileDoc
    THEN PlanResponse("get_profile", "404", NoProfile, NoPlan)
    ELSE PlanResponse("get_profile", "ok", doc.profile, compute_plan(doc.profile))

\* the number of meal entries the collection holds, over all its documents
RECURSIVE CountFrom(_, _)
CountFrom(coll, i) ==
    IF i > Len(coll) THEN 0 ELSE Len(coll[i].entries) + CountFrom(coll, i + 1)

Stored(coll) == CountFrom(coll, 1)

\* ---------------------------------------------------------------------------
\* State
\* ---------------------------------------------------------------------------
Procs == {"w1", "w2"}

VARIABLES
    db,         \* the module-level store handle: "db", or "None" when unconfigured
    dailylog,   \* the dailylog collection: documents in insertion order
    resp,       \* requests served one at a time: the last response
    removed,    \* history: the log a successful delete_entry found, while that
                \* delete is the last request served
    pc,         \* interleaved requests: where each worker's handler stands
    req,        \* ... the payload of the request it serves
    log,        \* ... the document its find_one returned
    ret,        \* ... the last response it sent
    started,    \* ... and the number of requests the workers have taken up
    userprofile,\* the userprofile collection: documents in insertion order
    arg         \* the planner on its own: the profile compute_plan is applied to

vars == <<db, dailylog, resp, removed, pc, req, log, ret, started, userprofile, arg>>
seqVars == <<resp, removed>>
procVars == <<pc, req, log, ret, started>>

Response(op, status, entries, totals) ==
    [op |-> op, status |-> status, entries |-> entries, totals |-> totals]

Status(op, status) == Response(op, status, <<>>, ZeroTotals)

NoResponse == Status("none", "none")

NoRemoved == [email |-> "", date |-> "", index |-> 0, log |-> NoDoc]

NoReq == [email |-> "", date |-> "", index |-> 0, entry |-> <<>>]

\* the application after start-up: empty collections, idle workers
Started ==
    /\ db \in {"db", "None"}
    /\ dailylog = <<>>
    /\ userprofile = <<>>
    /\ resp = NoResponse
    /\ removed = NoRemoved
    /\ pc = [p \in Procs |-> "idle"]
    /\ req = [p \in Procs |-> NoReq]
    /\ log = [p \in Procs |-> NoDoc]
    /\ ret = [p \in Procs |-> NoResponse]
    /\ started = 0

Init == Started /\ arg = NoProfile

\* faulty variant of LogView: a missing log is an error
LogView_NotFound(doc) ==
    IF doc = NoDoc
    THEN Response("get_log", "404", <<>>, ZeroTotals)
    ELSE Response("get_log", "ok", doc.entries, doc.totals)

\* what get_log returns for the document find_one returned
LogView(doc) ==
    IF doc = NoDoc
    THEN Response("get_log", "ok", <<>>, ZeroTotals)
    ELSE Response("get_log", "ok", doc.entries, doc.totals)

\* ---------------------------------------------------------------------------
\* Requests served one at a time: each handler runs from start to end
\* ---------------------------------------------------------------------------

\* GET /api/log/{email}/{log_date}
get_log(email, log_date) ==
    /\ UNCHANGED <<db, userprofile, arg, dailylog, procVars>>
    /\ removed' = NoRemoved
    /\ IF db = "None"
       THEN resp' = Status("get_log", "500")
       ELSE resp' = LogView(FindOne(dailylog, email, log_date))

\* POST /api/log/entry
add_entry(email, date, entry) ==
    /\ UNCHANGED <<db, userprofile, arg, procVars>>
    /\ removed' = NoRemoved
    /\ IF db = "None"
       THEN /\ resp' = Status("add_entry", "500")
            /\ UNCHANGED dailylog
       ELSE LET found == FindOne(dailylog, email, date)
            IN  /\ Stored(dailylog) < MaxEntries
                /\ resp' = Status("add_entry", add_status(found))
                /\ dailylog' = add_write(dailylog, found, email, date, entry)

\* DELETE /api/log/entry
delete_entry(email, date, index) ==
    /\ UNCHANGED <<db, userprofile, arg, procVars>>
    /\ IF db = "None"
       THEN /\ resp' = Status("delete_entry", "500")
            /\ UNCHANGED dailylog
            /\ removed' = NoRemoved
       ELSE LET found  == FindOne(dailylog, email, date)
                status == delete_check(found, index)
            IN  /\ resp' = Status("delete_entry", status)
                /\ IF status = "deleted"
                   THEN /\ dailylog' = delete_write(dailylog, found, index)
                        /\ removed' = [email |-> email, date |-> date,
                                       index |-> index, log |-> found]
                   ELSE /\ UNCHANGED dailylog
                        /\ removed' = NoRemoved

GetLog == \E email \in Emails, date \in Dates : get_log(email, date)
AddEntry == \E email \in Emails, date \in Dates, entry \in Entries : add_entry(email, date, entry)
DeleteEntry == \E email \in Emails, date \in Dates, index \in Indexes : delete_entry(email, date, index)

Next == GetLog \/ AddEntry \/ DeleteEntry

Spec == Init /\ [][Next]_vars

\* ---------------------------------------------------------------------------
\* The profile handlers, requests served one at a time
\* ---------------------------------------------------------------------------

\* POST /api/profile
upsert_profile(profile) ==
    /\ UNCHANGED <<db, dailylog, arg, procVars>>
    /\ removed' = NoRemoved
    /\ IF db = "None"
       THEN /\ resp' = PlanResponse("upsert_profile", "500", NoProfile, NoPlan)
            /\ UNCHANGED userprofile
       ELSE LET existing == FindProfile(userprofile, profile.email)
            IN  /\ userprofile' = upsert_write(userprofile, existing, profile)
                /\ resp' = PlanResponse("upsert_profile", "ok", profile,
                                        compute_plan(profile))

\* GET /api/profile/{email}
get_profile(email) ==
    /\ UNCHANGED <<db, dailylog, userprofile, arg, procVars>>
    /\ removed' = NoRemoved
    /\ IF db = "None"
       THEN resp' = PlanResponse("get_profile", "500", NoProfile, NoPlan)
       ELSE resp' = ProfileView(FindProfile(userprofile, email))

UpsertProfile == \E profile \in Profiles : upsert_profile(profile)
GetProfile == \E email \in Emails : get_profile(email)

NextProfile == UpsertProfile \/ GetProfile

SpecProfile == Init /\ [][NextProfile]_vars

\* ---------------------------------------------------------------------------
\* Requests interleaved at the granularity of store calls: a worker's
\* handler is split at each call on db["dailylog"] or db["userprofile"]
\* ---------------------------------------------------------------------------
\* a worker takes up a request
Start(p) ==
    /\ pc[p] = "idle"
    /\ started < MaxRequests
    /\ started' = started + 1

\* a worker is done with its request
Idle(p) ==
    /\ UNCHANGED started
    /\ pc' = [pc EXCEPT ![p] = "idle"]
    /\ req' = [req EXCEPT ![p] = NoReq]
    /\ log' = [log EXCEPT ![p] = NoDoc]

\* get_log: its single store call and the response
GetLogCall(p, email, log_date) ==
    /\ Start(p)
    /\ UNCHANGED <<db, userprofile, arg, dailylog, seqVars, pc, req, log>>
    /\ IF db = "None"
       THEN ret' = [ret EXCEPT ![p] = Status("get_log", "500")]
       ELSE ret' = [ret EXCEPT ![p] = LogView(FindOne(dailylog, email, log_date))]

\* add_entry up to and including find_one
AddFind(p, email, date, entry) ==
    /\ Start(p)
    /\ UNCHANGED <<db, userprofile, arg, dailylog, seqVars>>
    /\ IF db = "None"
       THEN /\ ret' = [ret EXCEPT ![p] = Status("add_entry", "500")]
            /\ UNCHANGED <<pc, req, log>>
       ELSE LET found == FindOne(dailylog, email, date)
            IN  /\ Stored(dailylog) < MaxEntries
                /\ pc' = [pc EXCEPT ![p] = "add_entry"]
                /\ req' = [req EXCEPT ![p] = [email |-> email, date |-> date,
                                              index |-> 0, entry |-> entry]]
                /\ log' = [log EXCEPT ![p] = found]
                /\ UNCHANGED ret

\* add_entry from there on: update_one or insert_one, and the response
AddWrite(p) ==
    /\ pc[p] = "add_entry"
    /\ UNCHANGED <<db, userprofile, arg, seqVars>>
    /\ dailylog' = add_write(dailylog, log[p], req[p].email, req[p].date, req[p].entry)
    /\ ret' = [ret EXCEPT ![p] = Status("add_entry", add_status(log[p]))]
    /\ Idle(p)

\* delete_entry up to the checks that follow find_one
DelFind(p, email, date, index) ==
    /\ Start(p)
    /\ UNCHANGED <<db, userprofile, arg, dailylog, seqVars>>
    /\ IF db = "None"
       THEN /\ ret' = [ret EXCEPT ![p] = Status("delete_entry", "500")]
            /\ UNCHANGED <<pc, req, log>>
       ELSE LET found  == FindOne(dailylog, email, date)
                status == delete_check(found, index)
            IN  IF status = "deleted"
                THEN /\ pc' = [pc EXCEPT ![p] = "delete_entry"]
                     /\ req' = [req EXCEPT ![p] = [email |-> email, date |-> date,
                                                   index |-> index, entry |-> <<>>]]
                     /\ log' = [log EXCEPT ![p] = found]
                     /\ UNCHANGED ret
                ELSE /\ ret' = [ret EXCEPT ![p] = Status("delete_entry", status)]
                     /\ UNCHANGED <<pc, req, log>>

\* delete_entry from there on: update_one and the response
DelWrite(p) ==
    /\ pc[p] = "delete_entry"
    /\ UNCHANGED <<db, userprofile, arg, seqVars>>
    /\ dailylog' = delete_write(dailylog, log[p], req[p].index)
    /\ ret' = [ret EXCEPT ![p] = Status("delete_entry", "deleted")]
    /\ Idle(p)

\* upsert_profile up to and including find_one
UpsertFind(p, profile) ==
    /\ Start(p)
    /\ UNCHANGED <<db, userprofile, arg, dailylog, seqVars>>
    /\ IF db = "None"
       THEN /\ ret' = [ret EXCEPT ![p] = PlanResponse("upsert_profile", "500", NoProfile, NoPlan)]
            /\ UNCHANGED <<pc, req, log>>
       ELSE /\ pc' = [pc EXCEPT ![p] = "upsert_profile"]
            /\ req' = [req EXCEPT ![p] = [profile |-> profile]]
            /\ log' = [log EXCEPT ![p] = FindProfile(userprofile, profile.email)]
            /\ UNCHANGED ret

\* upsert_profile from there on: update_one or create_document, and the plan
UpsertWrite(p) ==
    /\ pc[p] = "upsert_profile"
    /\ UNCHANGED <<db, arg, dailylog, seqVars>>
    /\ userprofile' = upsert_write(userprofile, log[p], req[p].profile)
    /\ ret' = [ret EXCEPT ![p] = PlanResponse("upsert_profile", "ok", req[p].profile,
                                              compute_plan(req[p].profile))]
    /\ Idle(p)

\* get_profile: its single store call and the response
GetProfileCall(p, email) ==
    /\ Start(p)
    /\ UNCHANGED <<db, userprofile, arg, dailylog, seqVars, pc, req, log>>
    /\ IF db = "None"
       THEN ret' = [ret EXCEPT ![p] = PlanResponse("get_profile", "500", NoProfile, NoPlan)]
       ELSE ret' = [ret EXCEPT ![p] = ProfileView(FindProfile(userprofile, email))]

GetLogStep == \E p \in Procs, email \in Emails, date \in Dates : GetLogCall(p, email, date)
AddFindStep == \E p \in Procs, email \in Emails, date \in Dates, entry \in Entries : AddFind(p, email, date, entry)
AddWriteStep == \E p \in Procs : AddWrite(p)
DelFindStep == \E p \in Procs, email \in Emails, date \in Dates, index \in Indexes : DelFind(p, email, date, index)
DelWriteStep == \E p \in Procs : DelWrite(p)
UpsertFindStep == \E p \in Procs, profile \in ConcProfiles : UpsertFind(p, profile)
UpsertWriteStep == \E p \in Procs : UpsertWrite(p)
GetProfileStep == \E p \in Procs, email \in Emails : GetProfileCall(p, email)

NextConc ==
    \/ GetLogStep \/ AddFindStep \/ AddWriteStep \/ DelFindStep \/ DelWriteStep
    \/ UpsertFindStep \/ UpsertWriteStep \/ GetProfileStep

SpecConc == Init /\ [][NextConc]_vars

\* ---------------------------------------------------------------------------
\* The planner on its own: compute_plan applied to an argument drawn from
\* PlanInputs
\* ---------------------------------------------------------------------------
InitPlan == Started /\ arg \in PlanInputs

ComputePlan ==
    /\ UNCHANGED <<db, userprofile, arg, dailylog, removed, procVars>>
    /\ resp' = PlanResponse("compute_plan", "ok", arg, compute_plan(arg))

NextPlan == ComputePlan

SpecPlan == InitPlan /\ [][NextPlan]_vars

\* ---------------------------------------------------------------------------
\* Properties.  The store is described here by its documents directly, not
\* through find_one.  Status "404" is NotFound, "400" is InvalidIndex and
\* "500" the unconfigured store; the properties of the handlers are stated
\* for a configured store (db = "db").
\* ---------------------------------------------------------------------------
LogsOf(coll, email, date) ==
    {i \in 1..Len(coll) : coll[i].email = email /\ coll[i].date = date}

HasLog(coll, email, date) == LogsOf(coll, email, date) # {}

TheLog(coll, email, date) == coll[CHOOSE i \in LogsOf(coll, email, date) : TRUE]

StoredEntries(coll, email, date) ==
    IF HasLog(coll, email, date) THEN TheLog(coll, email, date).entries ELSE <<>>

\* C1: every stored log's totals are the recomputation (per field, the sum of
\* field x quantity over the log's entries, rounded to one decimal place) of
\* the entries stored with them, after any sequence of requests served one at
\* a time.
C1_TotalsMatchEntries ==
    \A i \in 1..Len(dailylog) :
        dailylog[i].totals = recalc_totals(dailylog[i].entries)

C1_Witness ==
    /\ resp = Status("delete_entry", "deleted")
    /\ \E i \in 1..Len(dailylog) :
        /\ Len(dailylog[i].entries) = 2
        /\ dailylog[i].totals.calories > 0

\* C2: delete_entry on an existing log with an index outside [0, entryCount)
\* answers 400 (InvalidIndex) and leaves the collection as it was.
C2_InvalidIndexLeavesLog ==
    [][\A email \in Emails, date \in Dates, index \in Indexes :
        (/\ db = "db"
         /\ HasLog(dailylog, email, date)
         /\ (index < 0 \/ index >= Len(StoredEntries(dailylog, email, date)))
         /\ delete_entry(email, date, index))
        => (resp'.status = "400" /\ dailylog' = dailylog)]_vars

C2_Witness ==
    /\ resp = Status("delete_entry", "400")
    /\ \E i \in 1..Len(dailylog) : Len(dailylog[i].entries) = 2
    /\ \E i \in 1..Len(dailylog) : dailylog[i].entries = <<>>

\* C3: delete_entry on a key without a log document answers 404 (NotFound)
\* whatever the index, creates no document and changes none.
C3_NotFoundLeavesStore ==
    [][\A email \in Emails, date \in Dates, index \in Indexes :
        (/\ db = "db"
         /\ ~HasLog(dailylog, email, date)
         /\ delete_entry(email, date, index))
        => (resp'.status = "404" /\ dailylog' = dailylog)]_vars

C3_Witness ==
    /\ resp = Status("delete_entry", "404")
    /\ Len(dailylog) = 1
    /\ dailylog[1].entries # <<>>

\* C4: add_entry on a key whose stored sequence is S (empty when there is no
\* log) leaves S followed by the entry: one entry more, every prior entry at
\* its index, the new entry last.
C4_AddAppends ==
    [][\A email \in Emails, date \in Dates, entry \in Entries :
        (db = "db" /\ add_entry(email, date, entry))
        => LET S == StoredEntries(dailylog, email, date)
               T == StoredEntries(dailylog', email, date)
           IN  /\ Len(T) = Len(S) + 1
               /\ \A j \in 1..Len(S) : T[j] = S[j]
               /\ T[Len(S) + 1] = entry]_vars

C4_Witness ==
    /\ resp = Status("add_entry", "updated")
    /\ \E i \in 1..Len(dailylog) : dailylog[i].entries = <<Apple, Banana, Apple>>

\* C5: a successful delete_entry(i) removes exactly position i: entries before
\* i keep their index, entries after i move down by one, the totals are those
\* of the remaining entries; when a single entry b remains, the totals are b's
\* contribution round(field x quantity, 1).
C5_DeleteRemovesIndex ==
    [][\A email \in Emails, date \in Dates, index \in Indexes :
        (/\ db = "db"
         /\ HasLog(dailylog, email, date)
         /\ index >= 0
         /\ index < Len(StoredEntries(dailylog, email, date))
         /\ delete_entry(email, date, index))
        => LET S == StoredEntries(dailylog, email, date)
               D == TheLog(dailylog', email, date)
               T == D.entries
           IN  /\ resp'.status = "deleted"
               /\ Len(T) = Len(S) - 1
               /\ \A j \in 1..Len(T) : T[j] = (IF j <= index THEN S[j] ELSE S[j + 1])
               /\ D.totals = recalc_totals(T)
               /\ Len(T) = 1 =>
                    \A k \in DOMAIN ZeroTotals :
                        D.totals[k] = round1(fmul(T[1][k], T[1].quantity))]_vars

C5_Witness ==
    /\ resp = Status("delete_entry", "deleted")
    /\ removed.index = 0
    /\ removed.log.entries = <<Apple, Banana>>
    /\ TheLog(dailylog, removed.email, removed.date).entries = <<Banana>>
    /\ Len(dailylog) = 1

\* C6: add_entry answers "created" exactly when the key had no log document
\* and "updated" exactly when it had one; when created, one document is
\* inserted, holding [entry] and its totals; when updated, none is inserted.
C6_CreatedOrUpdated ==
    [][\A email \in Emails, date \in Dates, entry \in Entries :
        (db = "db" /\ add_entry(email, date, entry))
        => LET n == Len(dailylog)
           IN  /\ (resp'.status = "created") <=> ~HasLog(dailylog, email, date)
               /\ (resp'.status = "updated") <=> HasLog(dailylog, email, date)
               /\ resp'.status = "created" =>
                    /\ Len(dailylog') = n + 1
                    /\ \A i \in 1..n : dailylog'[i] = dailylog[i]
                    /\ dailylog'[n + 1].email = email
                    /\ dailylog'[n + 1].date = date
                    /\ dailylog'[n + 1].entries = <<entry>>
                    /\ dailylog'[n + 1].totals = recalc_totals(<<entry>>)
               /\ resp'.status = "updated" => Len(dailylog') = n]_vars

C6_Witness ==
    /\ resp = Status("add_entry", "created")
    /\ Len(dailylog) = 2
    /\ Len(dailylog[1].entries) = 2

\* C7: get_log on a key without a stored log answers ok with no entries and
\* zero totals, as it does for a stored log whose entry sequence is empty;
\* get_log never writes to the collection.
C7_GetLogDefault ==
    [][\A email \in Emails, date \in Dates :
        (db = "db" /\ get_log(email, date))
        => /\ dailylog' = dailylog
           /\ StoredEntries(dailylog, email, date) = <<>> =>
                /\ resp'.status = "ok"
                /\ resp'.entries = <<>>
                /\ resp'.totals = ZeroTotals]_vars

C7_Witness ==
    /\ resp = Response("get_log", "ok", <<>>, ZeroTotals)
    /\ Len(dailylog) = 1
    /\ dailylog[1].entries = <<>>

\* C8: a log document, once stored, stays stored under its key; deleting the
\* only entry leaves the document with no entries and zero totals, and on
\* such a document delete_entry answers 400 (not 404) and add_entry answers
\* "updated" (not "created").
C8_LogNeverDeleted ==
    [][/\ \A i \in 1..Len(dailylog) :
            /\ i <= Len(dailylog')
            /\ dailylog'[i].id = dailylog[i].id
            /\ dailylog'[i].email = dailylog[i].email
            /\ dailylog'[i].date = dailylog[i].date
       /\ \A email \in Emails, date \in Dates :
            (db = "db" /\ HasLog(dailylog, email, date)) =>
                LET S == StoredEntries(dailylog, email, date)
                IN  /\ (Len(S) = 1 /\ delete_entry(email, date, 0)) =>
                            /\ HasLog(dailylog', email, date)
                            /\ TheLog(dailylog', email, date).entries = <<>>
                            /\ TheLog(dailylog', email, date).totals = ZeroTotals
                    /\ S = <<>> =>
                            /\ \A index \in Indexes :
                                delete_entry(email, date, index) => resp'.status = "400"
                            /\ \A entry \in Entries :
                                add_entry(email, date, entry) => resp'.status = "updated"]_vars

C8_Witness ==
    /\ resp = Status("add_entry", "updated")
    /\ Len(dailylog) = 1
    /\ dailylog[1].entries = <<Banana>>
    /\ dailylog[1].id = 1

\* C9: a successful delete_entry(i) immediately followed by add_entry of the
\* removed entry restores the entry count and all four totals to their values
\* before the delete; the sequence is the original one with the removed entry
\* moved to the end.
C9_DeleteThenAddRestores ==
    [][\A entry \in Entries :
        (/\ db = "db"
         /\ removed # NoRemoved
         /\ entry = removed.log.entries[removed.index + 1]
         /\ add_entry(removed.email, removed.date, entry))
        => LET D == TheLog(dailylog', removed.email, removed.date)
           IN  /\ Len(D.entries) = Len(removed.log.entries)
               /\ D.entries = Append(Pop(removed.log.entries, removed.index), entry)
               /\ D.totals = removed.log.totals]_vars

\* C10: the dailylog collection holds at most one log document per
\* (email, date), also when requests interleave between their store calls.
C10_OneLogPerKey ==
    \A i, j \in 1..Len(dailylog) :
        (dailylog[i].email = dailylog[j].email /\ dailylog[i].date = dailylog[j].date)
            => i = j

\* C11: the load-mutate-write sequence of add_entry and delete_entry is not
\* isolated.  The write step of a request stores what follows from the
\* document its own find_one returned, whatever other requests have written
\* to that document in between, and answers "updated" / "deleted"; so two
\* requests on one existing log can both succeed while the stored sequence
\* reflects the last writer only (C11_Witness).
C11_LostUpdate ==
    [][\A p \in Procs :
        /\ (AddWrite(p) /\ log[p] # NoDoc) =>
                /\ ret'[p].status = "updated"
                /\ \A i \in 1..Len(dailylog) :
                        dailylog[i].id = log[p].id =>
                            dailylog'[i].entries = Append(log[p].entries, req[p].entry)
        /\ DelWrite(p) =>
                /\ ret'[p].status = "deleted"
                /\ \A i \in 1..Len(dailylog) :
                        dailylog[i].id = log[p].id =>
                            dailylog'[i].entries = Pop(log[p].entries, req[p].index)]_vars

\* three requests were served, an add_entry that created the log with Apple,
\* a delete_entry of index 0 and an add_entry of Banana; both of the latter
\* succeeded, and the delete is lost: served in any order one after the
\* other, they leave one entry
C11_Witness ==
    /\ started = 3
    /\ \A p \in Procs : pc[p] = "idle"
    /\ ret["w1"] = Status("delete_entry", "deleted")
    /\ ret["w2"] = Status("add_entry", "updated")
    /\ Len(dailylog) = 1
    /\ dailylog[1].entries = <<Apple, Banana>>

\* C18: also when add_entry and delete_entry requests interleave at the
\* granularity of store calls, so that updates are lost, every log document
\* in the store has, field by field, the totals that recalc_totals gives for
\* the entries of that same document: entries and totals are written by one
\* store call.
C18_TotalsMatchInterleaved ==
    \A i \in 1..Len(dailylog) :
        LET totals == recalc_totals(dailylog[i].entries)
        IN  \A k \in DOMAIN ZeroTotals : dailylog[i].totals[k] = totals[k]

\* a delete_entry has overwritten an add_entry that was written after the
\* delete had read the log: two successful writes on a log of one entry
\* leave no entry
C18_Witness ==
    /\ started = 3
    /\ \A p \in Procs : pc[p] = "idle"
    /\ ret["w1"] = Status("add_entry", "updated")
    /\ ret["w2"] = Status("delete_entry", "deleted")
    /\ Len(dailylog) = 1
    /\ dailylog[1].entries = <<>>
    /\ dailylog[1].totals = ZeroTotals

\* C14: for every profile of PlanInputs, compute_plan returns
\*   maintenance_calories = round(bmr x m),
\*   goal_calories        = round(bmr x m x (1 + adj)),
\*   protein_g = round(0.3 x g / 4), carbs_g = round(0.4 x g / 4),
\*   fat_g     = round(0.3 x g / 9),
\* with bmr = 10 weight_kg + 6.25 height_cm - 5 age + 5 (male) or - 161, m the
\* activity multiplier, adj = -0.2 / 0 / 0.15 and g the unrounded goal
\* calories.  The formula is evaluated in floats, left to right; each output
\* is moreover an integer nearest to the exact (rational) value of its
\* expression; for male, 30, 180 cm, 80 kg, moderate, maintain the plan is
\* 2759 / 2759 / 207 / 276 / 92.
C14_PlanFormula ==
    resp.op = "compute_plan" =>
        LET p    == resp.profile
            plan == resp.plan
            male == p.gender = "male"
            m    == [sedentary |-> Lit(12, 1), light |-> Lit(1375, 3),
                     moderate |-> Lit(155, 2), active |-> Lit(1725, 3),
                     very_active |-> Lit(19, 1)][p.activity_level]
            adj  == [lose |-> Neg(Lit(2, 1)), maintain |-> Float(0),
                     gain |-> Lit(15, 2)][p.goal]
            bmr  == Add(Sub(Add(Mul(Float(10), p.weight_kg),
                                Mul(Lit(625, 2), p.height_cm)),
                            Float(5 * p.age)),
                        IF male THEN Float(5) ELSE Float(0 - 161))
            g    == Mul(Mul(bmr, m), Add(Float(1), adj))
            \* the same in exact arithmetic: m in 40ths, 1 + adj in 20ths,
            \* bmr in 8ths
            m40  == [sedentary |-> 48, light |-> 55, moderate |-> 62,
                     active |-> 69, very_active |-> 76][p.activity_level]
            f20  == [lose |-> 16, maintain |-> 20, gain |-> 23][p.goal]
            Abs(x) == IF x < 0 THEN 0 - x ELSE x
            Nearest(o, n, d) == 2 * Abs(o * d - n) <= d
        IN  /\ plan = CaloriePlan(round0(Mul(bmr, m)),
                                  round0(g),
                                  round0(Div(Mul(Lit(3, 1), g), 4)),
                                  round0(Div(Mul(Lit(4, 1), g), 4)),
                                  round0(Div(Mul(Lit(3, 1), g), 9)))
            /\ \A h10 \in Heights10, w10 \in Weights10 :
                    (p.height_cm = Lit(h10, 1) /\ p.weight_kg = Lit(w10, 1)) =>
                        LET bmr8 == 8 * w10 + 5 * h10 - 40 * p.age
                                        + (IF male THEN 40 ELSE 0 - 1288)
                            t    == bmr8 * m40
                            n    == t * f20
                        IN  /\ Nearest(plan.maintenance_calories, t, 320)
                            /\ Nearest(plan.goal_calories, n, 6400)
                            /\ Nearest(plan.protein_g, 3 * n, 256000)
                            /\ Nearest(plan.carbs_g, n, 64000)
                            /\ Nearest(plan.fat_g, n, 192000)
            /\ p = UserProfile("ann@x.org", "None", 30, "male", Lit(1800, 1),
                               Lit(800, 1), "moderate", "maintain") =>
                    plan = CaloriePlan(2759, 2759, 207, 276, 92)

\* the plan of the scenario has been computed
C14_Witness ==
    /\ resp.op = "compute_plan"
    /\ arg = UserProfile("ann@x.org", "None", 30, "male", Lit(1800, 1),
                         Lit(800, 1), "moderate", "maintain")
    /\ resp.plan = CaloriePlan(2759, 2759, 207, 276, 92)

\* C15: for every valid profile the plan satisfies
\* |protein_g x 4 + carbs_g x 4 + fat_g x 9 - goal_calories| <= 9.
C15_MacrosSumToGoal ==
    resp.op = "compute_plan" =>
        LET plan == resp.plan
            diff == plan.protein_g * 4 + plan.carbs_g * 4 + plan.fat_g * 9
                        - plan.goal_calories
        IN  diff <= 9 /\ 0 - diff <= 9

\* a plan whose macro grams fall 8 kcal short of the goal calories
C15_Witness ==
    /\ resp.op = "compute_plan"
    /\ resp.plan = CaloriePlan(2925, 2925, 219, 292, 97)
    /\ arg.activity_level = "active"

\* C16: for every profile that satisfies the field constraints (age 10..120,
\* gender male or female, height_cm > 0, weight_kg > 0, a listed activity
\* level, a listed goal) all five outputs of compute_plan are >= 0.
C16_AllNonNegative ==
    resp.op = "compute_plan" =>
        /\ resp.plan.maintenance_calories >= 0
        /\ resp.plan.goal_calories >= 0
        /\ resp.plan.protein_g >= 0
        /\ resp.plan.carbs_g >= 0
        /\ resp.plan.fat_g >= 0

\* C16, amended: for every profile that satisfies the field constraints, the
\* five outputs of compute_plan are >= 0 when
\* 10 weight_kg + 6.25 height_cm - 5 age + 5 (male) or - 161 (female) is
\* >= 0, and <= 0 when it is < 0.
C16_SignOfBmr ==
    resp.op = "compute_plan" =>
        LET p    == resp.profile
            plan == resp.plan
        IN  \A h10 \in Heights10, w10 \in Weights10 :
                (p.height_cm = Lit(h10, 1) /\ p.weight_kg = Lit(w10, 1)) =>
                    LET bmr8 == 8 * w10 + 5 * h10 - 40 * p.age
                                    + (IF p.gender = "male" THEN 40 ELSE 0 - 1288)
                    IN  IF bmr8 >= 0
                        THEN /\ plan.maintenance_calories >= 0
                             /\ plan.goal_calories >= 0
                             /\ plan.protein_g >= 0
                             /\ plan.carbs_g >= 0
                             /\ plan.fat_g >= 0
                        ELSE /\ plan.maintenance_calories <= 0
                             /\ plan.goal_calories <= 0
                             /\ plan.protein_g <= 0
                             /\ plan.carbs_g <= 0
                             /\ plan.fat_g <= 0

\* the plan of a profile with a small positive bmr (139.25)
C16_Witness ==
    /\ resp.op = "compute_plan"
    /\ arg = UserProfile("ann@x.org", "None", 65, "male", Lit(10, 1),
                         Lit(453, 1), "sedentary", "lose")
    /\ resp.plan.maintenance_calories = 167
    /\ resp.plan.fat_g > 0

\* C12: the userprofile collection holds at most one profile document per
\* email in every reachable state, also when submissions for one email
\* interleave between find_one and the insert or update that follows.
C12_OneProfilePerEmail ==
    \A i, j \in 1..Len(userprofile) :
        userprofile[i].profile.email = userprofile[j].profile.email => i = j

ProfilesOf(coll, email) == {i \in 1..Len(coll) : coll[i].profile.email = email}

HasProfile(coll, email) == ProfilesOf(coll, email) # {}

StoredProfile(coll, email) == coll[CHOOSE i \in ProfilesOf(coll, email) : TRUE].profile

\* C13: with requests served one at a time, get_profile for an email without
\* a stored profile (none was ever submitted) answers 404; upsert_profile of
\* p leaves exactly one document for p's email, every field of which is p's
\* (a name that p leaves absent is absent), leaves the documents of other
\* emails as they were and returns compute_plan(p); get_profile for an email
\* with a stored profile returns that profile and its compute_plan, which
\* right after the submission of p is p and the plan the submission
\* returned.
C13_FetchReturnsSubmitted ==
    [][/\ \A email \in Emails :
            (db = "db" /\ ~HasProfile(userprofile, email) /\ get_profile(email))
                => resp'.status = "404"
       /\ \A p \in Profiles :
            (db = "db" /\ upsert_profile(p)) =>
                /\ resp'.status = "ok"
                /\ resp'.plan = compute_plan(p)
                /\ Cardinality(ProfilesOf(userprofile', p.email)) = 1
                /\ StoredProfile(userprofile', p.email) = p
                /\ \A i \in 1..Len(userprofile) :
                        userprofile[i].profile.email # p.email =>
                            userprofile'[i] = userprofile[i]
       /\ \A email \in Emails :
            (db = "db" /\ HasProfile(userprofile, email) /\ get_profile(email)) =>
                /\ resp'.status = "ok"
                /\ resp'.profile = StoredProfile(userprofile, email)
                /\ resp'.plan = compute_plan(resp'.profile)
                /\ (resp.op = "upsert_profile" /\ resp.profile.email = email) =>
                        /\ resp'.profile = resp.profile
                        /\ resp'.plan = resp.plan]_vars

\* ann's profile is fetched, a profile without a name, bob's having been
\* stored after ann's first
C13_Witness ==
    /\ resp = PlanResponse("get_profile", "ok", Ann3, CaloriePlan(2759, 2759, 207, 276, 92))
    /\ Len(userprofile) = 2
    /\ userprofile[1] = [id |-> 1, profile |-> Ann3]
    /\ userprofile[2].profile = Bob2

\* p and q agree in the fields gender, age, height_cm, weight_kg,
\* activity_level and goal
SameInputs(p, q) ==
    /\ p.gender = q.gender
    /\ p.age = q.age
    /\ p.height_cm = q.height_cm
    /\ p.weight_kg = q.weight_kg
    /\ p.activity_level = q.activity_level
    /\ p.goal = q.goal

Planned(r) == r.status = "ok" /\ r.op \in {"upsert_profile", "get_profile"}

\* C17: the plan is a function of gender, age, height_cm, weight_kg,
\* activity_level and goal only.  Whatever the store holds, the plan a
\* handler returns for a profile is the compute_plan of every profile that
\* agrees with it in those six fields, whatever its email and name, and is
\* the plan of the previous response when that was computed for such a
\* profile; computing the plan changes no stored state: get_profile leaves
\* both collections as they were, upsert_profile leaves the daily logs as
\* they were and the profiles as its own store write left them.
C17_PlanOfInputsOnly ==
    [][/\ \A p \in Profiles :
            (db = "db" /\ upsert_profile(p)) =>
                /\ \A q \in Profiles :
                        SameInputs(p, q) => resp'.plan = compute_plan(q)
                /\ (Planned(resp) /\ SameInputs(resp.profile, p)) =>
                        resp'.plan = resp.plan
                /\ dailylog' = dailylog
                /\ userprofile' = upsert_write(userprofile,
                                       FindProfile(userprofile, p.email), p)
       /\ \A email \in Emails :
            (db = "db" /\ get_profile(email)) =>
                /\ dailylog' = dailylog
                /\ userprofile' = userprofile
                /\ Planned(resp') =>
                        /\ \A q \in Profiles :
                                SameInputs(resp'.profile, q) =>
                                    resp'.plan = compute_plan(q)
                        /\ (Planned(resp) /\ SameInputs(resp.profile, resp'.profile)) =>
                                resp'.plan = resp.plan]_vars

\* bob's profile is planned while ann's, equal to it in the six fields but
\* not in email and name, is stored: the plan is the same
C17_Witness ==
    /\ resp = PlanResponse("upsert_profile", "ok", Bob1, CaloriePlan(2759, 2759, 207, 276, 92))
    /\ Len(userprofile) = 2
    /\ userprofile[1].profile = Ann1
    /\ userprofile[2].profile = Bob1

\* C19: every step of a get_log, add_entry or delete_entry request for a key
\* (email, date), successful or failing and however the requests interleave,
\* leaves the documents of every other key as they were, entries and totals,
\* and leaves the userprofile collection as it was; the steps up to and
\* including find_one, and the requests that fail, leave the whole dailylog
\* collection as it was.
C19_OtherKeysUntouched ==
    [][/\ \A p \in Procs :
            (AddWrite(p) \/ DelWrite(p)) =>
                /\ userprofile' = userprofile
                /\ \A i \in 1..Len(dailylog) :
                        (dailylog[i].email # req[p].email \/ dailylog[i].date # req[p].date)
                            => (i <= Len(dailylog') /\ dailylog'[i] = dailylog[i])
       /\ (GetLogStep \/ AddFindStep \/ DelFindStep) =>
                /\ userprofile' = userprofile
                /\ dailylog' = dailylog]_vars

\* a log of bob and a profile are stored, and an add_entry for ann has
\* created her log
C19_Witness ==
    /\ started = 3
    /\ ret["w1"] = Status("add_entry", "created")
    /\ ret["w2"].op = "upsert_profile"
    /\ Len(userprofile) = 1
    /\ Len(dailylog) = 2
    /\ dailylog[1].email = "bob@x.org"
    /\ dailylog[1].entries = <<Apple>>
    /\ dailylog[2].email = "ann@x.org"
====
